---- MODULE Spec2Model ----
(***************************************************************************)
(* Model of geo_service: the service-layer cache and per-key single-flight *)
(* lock of GeoService (services/geo_service.py), the dependency wiring     *)
(* that builds a GeoService per HTTP request (dependencies.py,             *)
(* routes/geo_router.py) and the Overpass adapter of GeoRepo with its      *)
(* lru_cache and its retry loop (repositories/implementations/geo_repo.py).*)
(* The domain functions of GeoRepo, its bounding box and nearest-distance  *)
(* helpers and the endpoints are also run as single calls on every input   *)
(* (SpecFn).                                                               *)
(*                                                                         *)
(* Time is a discrete clock `now` in units of one TTL second.  The event   *)
(* loop runs a ready task to its next suspension point at once, so the     *)
(* clock advances only while every task is suspended (waiting for a lock,  *)
(* for a provider answer or for the backoff sleep) or idle.                *)
(*                                                                         *)
(* Coordinates are integers counting tenths of the rounding unit: with     *)
(* geo_cache_precision = 6 the value 14 stands for 0.0000014 degrees and   *)
(* round(x, precision) is rounding to the nearest multiple of 10.          *)
(***************************************************************************)
EXTENDS Integers, Sequences, FiniteSets, TLC

(* ------------------------------ bounds --------------------------------- *)
NumCallers == 2
MaxTTL == 1
MaxCalls == NumCallers
MaxTime == MaxTTL + 1

(* ------------------------- program constants ---------------------------- *)
DefaultRadius == 5000
MaxAttempts == 2
BackoffSeconds == 2

Callers == 1..NumCallers
SharedSvc == 0
Svcs == {SharedSvc} \cup Callers
Slots == {1, 2}

Labels == {"forest", "protection"}
Lats == {10, 14}
Lngs == {20}
Radii == {DefaultRadius}

NoneStr == "<None>"
None == [kind |-> "None"]
Raised == [kind |-> "raised"]

(* round(x, precision): Python rounds to the nearest representable value,  *)
(* ties to even.                                                           *)
Round(x) ==
    LET q == x \div 10
        r == x % 10
    IN  IF r < 5 THEN 10 * q
        ELSE IF r > 5 THEN 10 * (q + 1)
        ELSE IF q % 2 = 0 THEN 10 * q ELSE 10 * (q + 1)

(* one key for all radii *)
CacheKey_NoRadius(label, lat, lng, radius) ==
    <<label, Round(lat), Round(lng), DefaultRadius>>

(* one key for all domains *)
CacheKey_NoLabel(label, lat, lng, radius) ==
    <<"forest", Round(lat), Round(lng), radius>>

(* the key built from the raw coordinates *)
CacheKey_Unrounded(label, lat, lng, radius) == <<label, lat, lng, radius>>

CacheKey(label, lat, lng, radius) == <<label, Round(lat), Round(lng), radius>>

(* The calls made on a GeoService whose repository is any implementation   *)
(* of GeoRepoInterface: one point, the same point within the rounding, and *)
(* one further call per component of the key that differs.                 *)
SvcInputs ==
    {<<"forest", 10, 20, DefaultRadius>>,
     <<"forest", 14, 20, DefaultRadius>>,
     <<"forest", 16, 20, DefaultRadius>>,
     <<"forest", 10, 26, DefaultRadius>>,
     <<"forest", 10, 20, 1000>>,
     <<"protection", 10, 20, DefaultRadius>>}

Keys ==
    {CacheKey(l, la, ln, r) : l \in Labels, la \in Lats, ln \in Lngs, r \in Radii}
        \cup {CacheKey(i[1], i[2], i[3], i[4]) : i \in SvcInputs}

GeoCond(lat, lng, radius) == [lat |-> lat, lng |-> lng, radius |-> radius]

NoReq == [label |-> "", lat |-> 0, lng |-> 0, radius |-> 0]

Req(label, cond) ==
    [label |-> label, lat |-> cond.lat, lng |-> cond.lng, radius |-> cond.radius]

KeyOf(rq) == CacheKey(rq.label, rq.lat, rq.lng, rq.radius)

(* ----------------- provider (Overpass) and its answers ------------------ *)
PyTrue == [py |-> "True"]
PyFalse == [py |-> "False"]
Geom(d) == [py |-> "Geometry", dist |-> d]

Wood == [geom |-> Geom(0), tags |-> [leaf_type |-> "broadleaved"]]
Reserve == [geom |-> Geom(0), tags |-> [protection_title |-> "Naturschutzgebiet"]]

(* Exception texts the provider client can raise, as token sequences.      *)
Err504 == <<"HTTP", "504">>
ErrFileExists == <<"File", "exists", "cache">>
ErrRefused == <<"Connection", "refused">>
ErrMsgs == {Err504, ErrFileExists, ErrRefused}
NoErr == <<>>

LowerTok(t) ==
    CASE t = "HTTP" -> "http"
      [] t = "File" -> "file"
      [] t = "Connection" -> "connection"
      [] OTHER -> t

Lower(msg) == [i \in 1..Len(msg) |-> LowerTok(msg[i])]

(* pat in text, on token sequences *)
Contains(text, pat) ==
    \E i \in 1..(Len(text) - Len(pat) + 1) :
        SubSeq(text, i, i + Len(pat) - 1) = pat

(* ------------------------ adapter call signatures ----------------------- *)
SubstationRadius == 10000

(* the arguments the domain functions of GeoRepo pass to the adapter; for  *)
(* power, slot 1 is the substation call and slot 2 the power-line call     *)
AdapterArgs(label, slot, rq) ==
    CASE label = "forest" ->
         [lat |-> rq.lat, lng |-> rq.lng, radius |-> rq.radius,
          element_type |-> <<"node", "relation", "way">>,
          selector |-> <<"natural=wood", "landuse=forest">>,
          additional_info |-> "forests",
          include_geometry |-> FALSE, el_limit |-> TRUE]
      [] label = "buildings" ->
         [lat |-> rq.lat, lng |-> rq.lng, radius |-> rq.radius,
          element_type |-> <<"way", "relation">>,
          selector |-> <<"landuse=residential", "landuse=construction",
                         "landuse=industrial", "landuse=retail",
                         "landuse=commercial">>,
          additional_info |-> NoneStr,
          include_geometry |-> FALSE, el_limit |-> TRUE]
      [] label = "power" /\ slot = 1 ->
         [lat |-> rq.lat, lng |-> rq.lng, radius |-> SubstationRadius,
          element_type |-> <<"node">>,
          selector |-> <<"power=substation">>,
          additional_info |-> NoneStr,
          include_geometry |-> TRUE, el_limit |-> FALSE]
      [] label = "power" /\ slot = 2 ->
         [lat |-> rq.lat, lng |-> rq.lng, radius |-> rq.radius,
          element_type |-> <<"way">>,
          selector |-> <<"power=line", "line=busbar">>,
          additional_info |-> NoneStr,
          include_geometry |-> TRUE, el_limit |-> FALSE]
      [] OTHER ->
         [lat |-> rq.lat, lng |-> rq.lng, radius |-> rq.radius,
          element_type |-> <<"way", "relation">>,
          selector |-> <<"boundary=protected_area">>,
          additional_info |-> "protected_area",
          include_geometry |-> FALSE, el_limit |-> TRUE]

(* the adapter calls a domain function awaits *)
SlotsOf(label) == IF label = "power" THEN {1, 2} ELSE {1}

Sigs ==
    {AdapterArgs(l, sl, GeoCond(la, ln, r)) :
        l \in Labels, sl \in Slots, la \in Lats, ln \in Lngs, r \in Radii}

(* What the provider may answer to a query with these arguments.           *)
Answers(args) ==
    IF args.additional_info = "forests" THEN {<<>>, <<Wood>>}
    ELSE {<<>>, <<Reserve>>}

TagGet(tags, k) == IF k \in DOMAIN tags THEN tags[k] ELSE NoneStr

(* the tag value as it is *)
OrUnknown_AsIs(v) == v

OrUnknown(v) == IF v = NoneStr \/ v = "" THEN "Unknown" ELSE v

AdapterResult(coords, info) == [coords |-> coords, info |-> info]

(* _get_data_from_overpass_sync after a successful query                   *)
ProcessElements(args, elements) ==
    IF Len(elements) > 0
    THEN AdapterResult(
            IF args.include_geometry
            THEN [i \in 1..Len(elements) |-> elements[i].geom]
            ELSE <<PyTrue>>,
            IF args.additional_info = "protected_area"
            THEN OrUnknown(TagGet(elements[1].tags, "protection_title"))
            ELSE IF args.additional_info = "forests"
            THEN OrUnknown(TagGet(elements[1].tags, "leaf_type"))
            ELSE "")
    ELSE AdapterResult(<<PyFalse>>, "")

(* a failure reported with the info of an untagged element *)
FailureResult_Unknown == AdapterResult(<<PyFalse>>, "Unknown")

(* the return of the except branch *)
FailureResult == AdapterResult(<<PyFalse>>, "")

(* the retry condition on the message as raised, not lowercased *)
IsTransient_CaseSensitive(msg) ==
    Contains(msg, <<"504">>) \/ Contains(msg, <<"file", "exists">>)

(* the retry condition of the except branch *)
IsTransient(msg) ==
    Contains(Lower(msg), <<"504">>) \/ Contains(Lower(msg), <<"file", "exists">>)

ShouldRetry(attempt, msg) == attempt = 0 /\ IsTransient(msg)

(* ------------------- GeoRepo._create_bounding_box ----------------------- *)
(* Positions for the bounding box are whole kilometres of arc: latitude    *)
(* from -PoleLat to PoleLat, longitude from -HalfTurn to HalfTurn, one     *)
(* unit of longitude as long as one of latitude (meridian convergence is   *)
(* left out).  Radii are whole kilometres given in metres.                 *)
MetresPerKm == 1000
MaxBoxKm == 5
PoleLat == 90
HalfTurn == 180

(* distance / 1000.0, exact for the radii used here *)
DistanceKm(distance) == distance \div MetresPerKm

(* the distance used as given *)
ClampKm_Unlimited(km) == km

(* if distance_km > 5: distance_km = 5 *)
ClampKm(km) == IF km > MaxBoxKm THEN MaxBoxKm ELSE km

(* the distance, in metres, by which the centre is projected *)
EdgeMetres(distance) == ClampKm(DistanceKm(distance)) * MetresPerKm

(* geopy keeps a longitude in [-180, 180] *)
NormLng(x) ==
    IF x > HalfTurn \/ x < -HalfTurn
    THEN ((x + HalfTurn) % (2 * HalfTurn)) - HalfTurn
    ELSE x

GeoPoint(lat, lng) == [latitude |-> lat, longitude |-> lng]

(* geodesic(kilometers=km).destination(point, bearing): a path over a pole *)
(* comes down the opposite meridian; at a pole every bearing leaves along  *)
(* a meridian.                                                             *)
Destination(lat, lng, bearing, km) ==
    CASE bearing = 0 ->
            IF lat + km > PoleLat
            THEN GeoPoint(2 * PoleLat - (lat + km), NormLng(lng + HalfTurn))
            ELSE GeoPoint(lat + km, lng)
      [] bearing = 180 ->
            IF lat - km < -PoleLat
            THEN GeoPoint(-2 * PoleLat - (lat - km), NormLng(lng + HalfTurn))
            ELSE GeoPoint(lat - km, lng)
      [] bearing = 90 ->
            IF lat = PoleLat THEN GeoPoint(lat - km, NormLng(lng + HalfTurn \div 2))
            ELSE IF lat = -PoleLat THEN GeoPoint(lat + km, NormLng(lng + HalfTurn \div 2))
            ELSE GeoPoint(lat, NormLng(lng + km))
      [] OTHER ->
            IF lat = PoleLat THEN GeoPoint(lat - km, NormLng(lng - HalfTurn \div 2))
            ELSE IF lat = -PoleLat THEN GeoPoint(lat + km, NormLng(lng - HalfTurn \div 2))
            ELSE GeoPoint(lat, NormLng(lng - km))

CreateBoundingBox(lat, lng, distance) ==
    LET km == ClampKm(DistanceKm(distance))
    IN  [min_lat |-> Destination(lat, lng, 180, km).latitude,
         min_lon |-> Destination(lat, lng, 270, km).longitude,
         max_lat |-> Destination(lat, lng, 0, km).latitude,
         max_lon |-> Destination(lat, lng, 90, km).longitude]

(* ------------------- the provider query of an adapter call ------------- *)
(* a query for the first selector only *)
BuildQuery_FirstSelector(args) ==
    [bbox |-> CreateBoundingBox(args.lat, args.lng, args.radius),
     elementType |-> args.element_type,
     selector |-> SubSeq(args.selector, 1, 1),
     includeGeometry |-> args.include_geometry,
     out |-> IF args.el_limit THEN "body 1" ELSE ""]

(* what _get_data_from_overpass_sync hands to overpassQueryBuilder         *)
BuildQuery(args) ==
    [bbox |-> CreateBoundingBox(args.lat, args.lng, args.radius),
     elementType |-> args.element_type,
     selector |-> args.selector,
     includeGeometry |-> args.include_geometry,
     out |-> IF args.el_limit THEN "body 1" ELSE ""]

(* The elements around a point, as far as a query's selectors match them,  *)
(* each lying geom.dist metres north of the point.  The provider returns   *)
(* those inside the bounding box, at most one for `out body 1`.            *)
InBox(q, lat, el) == el.geom.dist <= (q.bbox.max_lat - lat) * MetresPerKm

Provider(q, lat, present) ==
    LET inside == SelectSeq(present, LAMBDA el : InBox(q, lat, el))
    IN  IF q.out = "body 1" /\ Len(inside) > 1 THEN SubSeq(inside, 1, 1)
        ELSE inside

(* the adapter call on a provider that always fails or that answers        *)
AdapterCall(args, failing, present) ==
    IF failing THEN FailureResult
    ELSE ProcessElements(args, Provider(BuildQuery(args), args.lat, present))

(* --------------------- repository domain functions ---------------------- *)
RepoGetForest(res) ==
    IF Len(res.coords) > 0 /\ res.coords[1] # PyFalse
    THEN [kind |-> "ResultForest", in_forest |-> TRUE, type |-> res.info]
    ELSE [kind |-> "ResultForest", in_forest |-> FALSE, type |-> NoneStr]

RepoGetProtectedAreas(res) ==
    IF Len(res.coords) > 0 /\ res.coords[1] # PyFalse
    THEN [kind |-> "ResultProtection", in_protected_area |-> TRUE,
          designation |-> res.info]
    ELSE [kind |-> "ResultProtection", in_protected_area |-> FALSE,
          designation |-> NoneStr]

(* any non-empty list taken as "elements found" *)
RepoGetBuildingsInArea_AnyList(res) ==
    [kind |-> "ResultBuildings", in_populated_area |-> Len(res.coords) > 0]

RepoGetBuildingsInArea(res) ==
    IF Len(res.coords) > 0 /\ res.coords[1] # PyFalse
    THEN [kind |-> "ResultBuildings", in_populated_area |-> TRUE]
    ELSE [kind |-> "ResultBuildings", in_populated_area |-> FALSE]

(* ---------------- GeoRepo._calculate_nearest_distance_sync -------------- *)
Float(v) == [kind |-> "float", v |-> v]
PdSeries(vals) == [kind |-> "Series", vals |-> vals]

IsGeometry(g) == g.py = "Geometry"

MinOf(S) == CHOOSE m \in S : \A x \in S : m <= x

(* The candidates become a GeoDataFrame; a column holding anything but     *)
(* geometries is not a geometry column and set_crs raises.  sjoin_nearest  *)
(* keeps one row per candidate at the smallest distance, all with the row  *)
(* label of the point; idxmin gives that label and .loc[label] is a row    *)
(* when the label is unique and a frame of all the rows when it is not,    *)
(* whose "distance" is then a Series.                                      *)
NearestDistance(coords) ==
    IF \E i \in 1..Len(coords) : ~IsGeometry(coords[i]) THEN Raised
    ELSE IF Len(coords) = 0 THEN Float(0)
    ELSE LET m == MinOf({coords[i].dist : i \in 1..Len(coords)})
             rows == {i \in 1..Len(coords) : coords[i].dist = m}
         IN  IF Cardinality(rows) = 1 THEN Float(m)
             ELSE PdSeries([i \in 1..Cardinality(rows) |-> m])

(* `if coords and coords is not False`: a non-empty list is truthy and is  *)
(* never the object False                                                  *)
HasCandidates(coords) == Len(coords) > 0

PowerDistance(coords) ==
    IF HasCandidates(coords) THEN NearestDistance(coords) ELSE Float(0)

(* get_power after the two adapter calls: the second gather propagates an  *)
(* exception of a distance task; `if d == 0.0` on a Series raises          *)
RepoGetPower(res1, res2) ==
    LET d1 == PowerDistance(res1.coords)
        d2 == PowerDistance(res2.coords)
    IN  IF d1 = Raised \/ d2 = Raised THEN Raised
        ELSE IF d1.kind = "Series" \/ d2.kind = "Series" THEN Raised
        ELSE [kind |-> "ResultPower",
              nearest_substation_distance_m |-> d1.v,
              nearest_powerline_distance_m |-> d2.v]

(* the domain functions of GeoRepo on what their adapter calls returned    *)
RepoCall(label, results) ==
    CASE label = "forest" -> RepoGetForest(results[1])
      [] label = "protection" -> RepoGetProtectedAreas(results[1])
      [] label = "buildings" -> RepoGetBuildingsInArea(results[1])
      [] OTHER -> RepoGetPower(results[1], results[2])

(* whatever the repository returned passes the check *)
Truthy_Always(v) == TRUE

(* bool() of what the repository returned: a pydantic model is truthy      *)
Truthy(v) == v # None

(* the _producer closures of GeoService: the repository call, then the     *)
(* `if not x: raise ValueError` check                                      *)
Producer(label, results) ==
    LET v == RepoCall(label, results)
    IN  IF v = Raised \/ ~Truthy(v) THEN Raised ELSE v

(* -------------------------- service-layer cache ------------------------- *)
NoEntry == [kind |-> "None"]
Entry(expiry, value) == [expiry |-> expiry, value |-> value]

(* a TTL of 0 taken as a valid lifetime *)
CachingOn_ZeroIncluded(t) == t >= 0

CachingOn(t) == t > 0

(* an entry taken as expired at its expiry time already *)
IsExpired_AtExpiry(item, time) == item.expiry <= time

IsExpired(item, time) == item.expiry < time

(* a read that also sweeps the expired entries of the other keys *)
CacheGet_Sweeping(map, key, t, time) ==
    IF ~CachingOn(t) THEN [map |-> map, value |-> None]
    ELSE [map |-> [k \in DOMAIN map |->
                      IF map[k] # NoEntry /\ IsExpired(map[k], time)
                      THEN NoEntry ELSE map[k]],
          value |-> IF map[key] # NoEntry /\ ~IsExpired(map[key], time)
                    THEN map[key].value ELSE None]

(* _cache_get on one GeoService's map: the map afterwards and the value    *)
CacheGet(map, key, t, time) ==
    IF ~CachingOn(t) THEN [map |-> map, value |-> None]
    ELSE IF map[key] = NoEntry THEN [map |-> map, value |-> None]
    ELSE IF IsExpired(map[key], time)
         THEN [map |-> [map EXCEPT ![key] = NoEntry], value |-> None]
         ELSE [map |-> map, value |-> map[key].value]

(* the value is not stored *)
CacheSet_Dropped(map, key, value, t, time) == map

(* _cache_set *)
CacheSet(map, key, value, t, time) ==
    IF ~CachingOn(t) THEN map
    ELSE [map EXCEPT ![key] = Entry(time + t, value)]

EmptyCache == [k \in Keys |-> NoEntry]

(* ------------------------ per-key asyncio.Lock -------------------------- *)
(* created: the key is in the defaultdict; waiters: the FIFO of waiting   *)
(* callers; woken: the waiters whose future has been resolved by release.  *)
NoLock ==
    [created |-> FALSE, locked |-> FALSE, waiters |-> <<>>, woken |-> {}]

EmptyLocks == [k \in Keys |-> NoLock]

(* the lock is handed out without entering the registry *)
LockFor_Unregistered(lock) == lock

(* self._locks[cache_key] *)
LockFor(lock) == [lock EXCEPT !.created = TRUE]

(* a lock that does not exclude: every caller gets it at once *)
CanAcquire_NoExclusion(lock) == lock.waiters = <<>>

(* Lock.acquire succeeds without suspending *)
CanAcquire(lock) == ~lock.locked /\ lock.waiters = <<>>

(* an exit path that wakes the first waiter but leaves the lock locked *)
Release_StaysLocked(lock) ==
    [lock EXCEPT !.woken = IF lock.waiters = <<>> THEN {} ELSE {Head(lock.waiters)}]

(* a release that unlocks without waking anybody *)
Release_NoWake(lock) == [lock EXCEPT !.locked = FALSE]

(* Lock.release: unlock and resolve the first waiter's future *)
Release(lock) ==
    [lock EXCEPT !.locked = FALSE,
                 !.woken = IF lock.waiters = <<>> THEN {} ELSE {Head(lock.waiters)}]

(* ------------------------- repository lru_cache ------------------------- *)
EmptyLru == [g \in Sigs |-> None]

(* @lru_cache(maxsize=128) *)
LruMaxSize == 128

(* the degraded result of a failed query is not kept *)
LruStore_SkipFailures(memo, sig, res) ==
    IF memo[sig] # None \/ res = FailureResult THEN memo
    ELSE [memo EXCEPT ![sig] = res]

(* functools.lru_cache keeps the entry another thread stored meanwhile     *)
LruStore(memo, sig, res) ==
    IF memo[sig] # None THEN memo ELSE [memo EXCEPT ![sig] = res]

(* ------------------------------- state ---------------------------------- *)
VARIABLES
    now,        \* time.time()
    ttl,        \* settings.geo_cache_ttl
    cache,      \* GeoService._cache, per GeoService instance
    locks,      \* GeoService._locks, per GeoService instance
    lru,        \* the lru_cache of GeoRepo._get_data_from_overpass_cached
    pc,         \* where each caller's coroutine is
    svc,        \* the GeoService instance each caller uses
    req,        \* label and GeoCond of each caller's current call
    result,     \* what the call returned (Raised: it raised)
    thr,        \* the worker threads of each caller's adapter calls
    info,       \* per call: what happened during it
    calls,      \* number of calls started
    fn          \* one repository, endpoint or helper call on its own

vars == <<now, ttl, cache, locks, lru, pc, svc, req, result, thr, info, calls,
          fn>>

NoFn == [op |-> "none"]

NoThread ==
    [pc |-> "off", attempts |-> 0, sleeps |-> 0, wake |-> 0,
     first |-> NoErr, failed |-> FALSE, res |-> None]

NoInfo ==
    [http |-> FALSE, hit |-> FALSE, waited |-> FALSE, produced |-> FALSE,
     queries |-> 0, liveAtStart |-> FALSE, expiredAtStart |-> FALSE,
     storedByRequest |-> FALSE]

Init ==
    /\ now = 0
    /\ ttl \in 0..MaxTTL
    /\ cache = [s \in Svcs |-> EmptyCache]
    /\ locks = [s \in Svcs |-> EmptyLocks]
    /\ lru = EmptyLru
    /\ pc = [c \in Callers |-> "idle"]
    /\ svc = [c \in Callers |-> SharedSvc]
    /\ req = [c \in Callers |-> NoReq]
    /\ result = [c \in Callers |-> None]
    /\ thr = [c \in Callers |-> [sl \in Slots |-> NoThread]]
    /\ info = [c \in Callers |-> NoInfo]
    /\ calls = 0
    /\ fn = NoFn

(* The keys of a map that hold an entry for this label, these rounded      *)
(* coordinates and this radius.                                            *)
StoredFor(map, label, rq) ==
    {k \in DOMAIN map :
        /\ map[k] # NoEntry
        /\ k[1] = label
        /\ Round(k[2]) = Round(rq.lat)
        /\ Round(k[3]) = Round(rq.lng)
        /\ k[4] = rq.radius}

(* ----------------------- GeoService._get_or_compute --------------------- *)
StartThreads(label) ==
    [sl \in Slots |->
        IF sl \in SlotsOf(label) THEN [NoThread EXCEPT !.pc = "lookup"]
        ELSE NoThread]

(* The body of `async with lock`, entered by caller c holding lock lk of   *)
(* (s, key): the re-check, then either the return or the await of the      *)
(* producer, which suspends in asyncio.to_thread.                          *)
UnderLock(c, s, key, label, maps, lks, lk, inf) ==
    LET g == CacheGet(maps[s], key, ttl, now)
    IN  /\ cache' = [maps EXCEPT ![s] = g.map]
        /\ IF g.value # None
           THEN /\ locks' = [lks EXCEPT ![s][key] =
                                Release(lk)]
                /\ pc' = [pc EXCEPT ![c] = "done"]
                /\ result' = [result EXCEPT ![c] = g.value]
                /\ info' = [info EXCEPT ![c] = inf]
                /\ thr' = thr
           ELSE /\ locks' = [lks EXCEPT ![s][key] = lk]
                /\ pc' = [pc EXCEPT ![c] = "producing"]
                /\ result' = result
                /\ info' = [info EXCEPT ![c] = [inf EXCEPT !.produced = TRUE]]
                /\ thr' = [thr EXCEPT ![c] = StartThreads(label)]

(* _get_or_compute from its first line to its first suspension point, on   *)
(* GeoService s whose maps are maps0 / lks0.                               *)
GetOrCompute(c, s, label, rq, maps0, lks0, inf0) ==
    LET key == CacheKey(label, rq.lat, rq.lng, rq.radius)
        g   == CacheGet(maps0[s], key, ttl, now)
        inf == [inf0 EXCEPT
                  !.liveAtStart =
                      \E k \in StoredFor(maps0[s], label, rq) : maps0[s][k].expiry >= now,
                  !.expiredAtStart =
                      \E k \in StoredFor(maps0[s], label, rq) : maps0[s][k].expiry < now]
        lk  == LockFor(lks0[s][key])
    IN  IF g.value # None
        THEN /\ cache' = [maps0 EXCEPT ![s] = g.map]
             /\ locks' = lks0
             /\ pc' = [pc EXCEPT ![c] = "done"]
             /\ result' = [result EXCEPT ![c] = g.value]
             /\ info' = [info EXCEPT ![c] = [inf EXCEPT !.hit = TRUE]]
             /\ thr' = thr
        ELSE IF CanAcquire(lk)
        THEN UnderLock(c, s, key, label, [maps0 EXCEPT ![s] = g.map], lks0,
                       [lk EXCEPT !.locked = TRUE],
                       inf)
        ELSE /\ cache' = [maps0 EXCEPT ![s] = g.map]
             /\ locks' = [lks0 EXCEPT ![s][key] =
                             [lk EXCEPT !.waiters = Append(@, c)]]
             /\ pc' = [pc EXCEPT ![c] = "waiting"]
             /\ result' = result
             /\ info' = [info EXCEPT ![c] = [inf EXCEPT !.waited = TRUE]]
             /\ thr' = thr

(* Callers are task slots: a new call takes the first free one.            *)
FirstFree(c) == \A d \in Callers : d < c => pc[d] # "idle"

(* A call of a domain query on the GeoService the application shares.      *)
DirectCall(c, label, lat, lng, radius) ==
    /\ pc[c] = "idle"
    /\ FirstFree(c)
    /\ calls < MaxCalls
    /\ calls' = calls + 1
    /\ svc' = [svc EXCEPT ![c] = SharedSvc]
    /\ req' = [req EXCEPT ![c] = Req(label, GeoCond(lat, lng, radius))]
    /\ GetOrCompute(c, SharedSvc, label, GeoCond(lat, lng, radius), cache, locks, NoInfo)
    /\ UNCHANGED <<now, ttl, lru>>

(* Another request's handler has just stored an entry for the key.        *)
StoredByRequest(c, key) ==
    \E d \in Callers \ {c} :
        /\ pc[d] = "done" /\ info[d].http /\ info[d].produced
        /\ result[d] # Raised /\ KeyOf(req[d]) = key /\ CachingOn(ttl)

(* An HTTP request: the endpoint builds GeoCond(lat=lat, lng=lng) and      *)
(* Depends(get_geo_service) builds GeoService(repo) for this request.      *)
HttpRequest(c, label, lat, lng) ==
    /\ pc[c] = "idle"
    /\ FirstFree(c)
    /\ calls < MaxCalls
    /\ calls' = calls + 1
    /\ svc' = [svc EXCEPT ![c] = c]
    /\ req' = [req EXCEPT ![c] = Req(label, GeoCond(lat, lng, DefaultRadius))]
    /\ GetOrCompute(c, c, label, GeoCond(lat, lng, DefaultRadius),
                    [cache EXCEPT ![c] = EmptyCache],
                    [locks EXCEPT ![c] = EmptyLocks],
                    [NoInfo EXCEPT !.http = TRUE,
                                   !.storedByRequest =
                                       StoredByRequest(c, CacheKey(label, lat, lng, DefaultRadius))])
    /\ UNCHANGED <<now, ttl, lru>>

(* The waiter whose future release resolved resumes in Lock.acquire, takes *)
(* the lock and runs the body of `async with lock`.                        *)
WaiterResume(c) ==
    LET s == svc[c]
        key == KeyOf(req[c])
        lk == locks[s][key]
    IN  /\ pc[c] = "waiting"
        /\ c \in lk.woken
        /\ UnderLock(c, s, key, req[c].label, cache, locks,
                     [lk EXCEPT !.locked = TRUE,
                                !.waiters = Tail(@),
                                !.woken = {}],
                     info[c])
        /\ UNCHANGED <<now, ttl, lru, svc, req, calls>>

(* ------------------- GeoRepo._get_data_from_overpass -------------------- *)
SigOf(c, sl) == AdapterArgs(req[c].label, sl, req[c])

(* the lru_cache wrapper looks the arguments up; on a miss                 *)
(* _get_data_from_overpass_sync builds the query and sends it (attempt 0)  *)
ThreadLookup(c, sl) ==
    /\ thr[c][sl].pc = "lookup"
    /\ thr' = [thr EXCEPT ![c][sl] =
                  IF lru[SigOf(c, sl)] # None
                  THEN [@ EXCEPT !.pc = "ret", !.res = lru[SigOf(c, sl)]]
                  ELSE [@ EXCEPT !.pc = "query", !.attempts = 1]]
    /\ UNCHANGED <<now, ttl, cache, locks, lru, pc, svc, req, result, info,
                   calls>>

(* self.overpass.query(query) returns: the elements are processed and the  *)
(* result is returned through the lru_cache wrapper, which stores it       *)
ProviderAnswer(c, sl, elements) ==
    /\ thr[c][sl].pc = "query"
    /\ LET r == ProcessElements(SigOf(c, sl), elements)
       IN  /\ thr' = [thr EXCEPT ![c][sl] = [@ EXCEPT !.pc = "ret", !.res = r]]
           /\ lru' = LruStore(lru, SigOf(c, sl), r)
    /\ UNCHANGED <<now, ttl, cache, locks, pc, svc, req, result, info, calls>>

(* self.overpass.query(query) raises: the except branch                    *)
ProviderError(c, sl, msg) ==
    /\ thr[c][sl].pc = "query"
    /\ IF ShouldRetry(thr[c][sl].attempts - 1, msg)
       THEN /\ thr' = [thr EXCEPT ![c][sl] =
                          [@ EXCEPT !.pc = "sleep", !.sleeps = @ + 1,
                                    !.wake = now + BackoffSeconds,
                                    !.first = msg]]
            /\ lru' = lru
       ELSE /\ thr' = [thr EXCEPT ![c][sl] =
                          [@ EXCEPT !.pc = "ret", !.res = FailureResult,
                                    !.first = IF @ = NoErr THEN msg ELSE @,
                                    !.failed = TRUE]]
            /\ lru' = LruStore(lru, SigOf(c, sl), FailureResult)
    /\ UNCHANGED <<now, ttl, cache, locks, pc, svc, req, result, info, calls>>

(* time.sleep(2) returns and the loop sends the query again (attempt 1)    *)
SleepDone(c, sl) ==
    /\ thr[c][sl].pc = "sleep"
    /\ now >= thr[c][sl].wake
    /\ thr[c][sl].attempts < MaxAttempts
    /\ thr' = [thr EXCEPT ![c][sl] = [@ EXCEPT !.pc = "query", !.attempts = @ + 1]]
    /\ UNCHANGED <<now, ttl, cache, locks, lru, pc, svc, req, result, info,
                   calls>>

(* The awaited adapter calls have returned: the repository function and    *)
(* the producer finish, _get_or_compute stores the value and leaves        *)
(* `async with lock` (by return or by the producer's exception).           *)
ProducerFinish(c) ==
    LET s == svc[c]
        key == KeyOf(req[c])
        lk == locks[s][key]
        used == SlotsOf(req[c].label)
        v == Producer(req[c].label, [sl \in Slots |-> thr[c][sl].res])
        q == thr[c][1].attempts + thr[c][2].attempts
    IN  /\ pc[c] = "producing"
        /\ \A sl \in used : thr[c][sl].pc = "ret"
        /\ pc' = [pc EXCEPT ![c] = "done"]
        /\ result' = [result EXCEPT ![c] = v]
        /\ thr' = [thr EXCEPT ![c] = [sl \in Slots |-> NoThread]]
        /\ info' = [info EXCEPT ![c].queries = q]
        /\ IF v = Raised
           THEN /\ cache' = cache
                /\ locks' = [locks EXCEPT ![s][key] =
                                Release(lk)]
           ELSE /\ cache' = [cache EXCEPT ![s] = CacheSet(@, key, v, ttl, now)]
                /\ locks' = [locks EXCEPT ![s][key] =
                                Release(lk)]
        /\ UNCHANGED <<now, ttl, lru, svc, req, calls>>

(* The caller has its answer; the GeoService of an HTTP request is dropped *)
Return(c) ==
    /\ pc[c] = "done"
    /\ pc' = [pc EXCEPT ![c] = "idle"]
    /\ result' = [result EXCEPT ![c] = None]
    /\ info' = [info EXCEPT ![c] = NoInfo]
    /\ req' = [req EXCEPT ![c] = NoReq]
    /\ svc' = [svc EXCEPT ![c] = SharedSvc]
    /\ cache' = IF svc[c] = c THEN [cache EXCEPT ![c] = EmptyCache] ELSE cache
    /\ locks' = IF svc[c] = c THEN [locks EXCEPT ![c] = EmptyLocks] ELSE locks
    /\ UNCHANGED <<now, ttl, lru, thr, calls>>

(* ------------------------------- time ----------------------------------- *)
Suspended(c) ==
    \/ pc[c] = "idle"
    \/ pc[c] = "waiting" /\ c \notin locks[svc[c]][KeyOf(req[c])].woken
    \/ /\ pc[c] = "producing"
       /\ \A sl \in Slots : thr[c][sl].pc # "lookup"
       /\ \E sl \in Slots : thr[c][sl].pc \in {"query", "sleep"}

Tick ==
    /\ now < MaxTime
    /\ \A c \in Callers : Suspended(c)
    /\ now' = now + 1
    /\ UNCHANGED <<ttl, cache, locks, lru, pc, svc, req, result, thr, info,
                   calls>>

(* ---------------- single calls of the repository functions ------------- *)
MaxCands == 2
FnLat == 0
FnLng == 0
FnRadii == {1000, 5000, 10000}
AllLabels == {"forest", "protection", "buildings", "power"}

SeqsUpTo(S, n) == UNION {[1..k -> S] : k \in 0..n}

Untagged == [name |-> "x"]

(* the elements that may lie around the point, per adapter call *)
Present(label, slot) ==
    CASE label = "forest" ->
            {[geom |-> Geom(0), tags |-> t] :
                t \in {[leaf_type |-> "broadleaved"], [leaf_type |-> ""], Untagged}}
      [] label = "protection" ->
            {[geom |-> Geom(0), tags |-> t] :
                t \in {[protection_title |-> "Naturschutzgebiet"],
                       [protection_title |-> ""], Untagged}}
      [] label = "buildings" ->
            {[geom |-> Geom(0), tags |-> [landuse |-> "residential"]]}
      [] label = "power" /\ slot = 1 ->
            {[geom |-> Geom(d), tags |-> [power |-> "substation"]] :
                d \in {700, 3000, 7000}}
      [] OTHER ->
            {[geom |-> Geom(d), tags |-> [power |-> "line"]] : d \in {700, 3000}}

(* One call of a domain function of GeoRepo: the world around the point    *)
(* and whether the provider fails are chosen per adapter call.             *)
RepoDomainCall(label, radius, world, failing) ==
    LET rq == Req(label, GeoCond(FnLat, FnLng, radius))
        args == [sl \in Slots |-> AdapterArgs(label, sl, rq)]
        results == [sl \in Slots |-> AdapterCall(args[sl], failing[sl], world[sl])]
    IN  /\ fn = NoFn
        /\ fn' = [op |-> "repo", label |-> label, radius |-> radius,
                  world |-> world, failing |-> failing,
                  queries |-> [sl \in SlotsOf(label) |-> BuildQuery(args[sl])],
                  results |-> [sl \in SlotsOf(label) |-> results[sl]],
                  result |-> RepoCall(label, results)]
        /\ UNCHANGED <<now, ttl, cache, locks, lru, pc, svc, req, result, thr,
                       info, calls>>

Worlds(label) ==
    {w \in [Slots -> SeqsUpTo(Present(label, 1) \cup Present(label, 2), MaxCands)] :
        \A sl \in Slots :
            /\ sl \notin SlotsOf(label) => w[sl] = <<>>
            /\ \A i \in 1..Len(w[sl]) : w[sl][i] \in Present(label, sl)}

Failings(label) ==
    {f \in [Slots -> BOOLEAN] : \A sl \in Slots : sl \notin SlotsOf(label) => ~f[sl]}

(* one call of _create_bounding_box *)
BoxLats == {-PoleLat, 2 - PoleLat, 0, PoleLat - 2, PoleLat}
BoxLngs == {-HalfTurn, 2 - HalfTurn, 0, HalfTurn - 2, HalfTurn}

BoxCall(lat, lng, distance) ==
    /\ fn = NoFn
    /\ fn' = [op |-> "bbox", lat |-> lat, lng |-> lng, distance |-> distance,
              box |-> CreateBoundingBox(lat, lng, distance)]
    /\ UNCHANGED <<now, ttl, cache, locks, lru, pc, svc, req, result, thr,
                   info, calls>>

(* one call of _calculate_nearest_distance_sync on candidate geometries *)
CandidateLists == SeqsUpTo({Geom(d) : d \in {700, 3000}}, MaxCands)

DistanceCall(coords) ==
    /\ fn = NoFn
    /\ fn' = [op |-> "distance", coords |-> coords,
              out |-> NearestDistance(coords)]
    /\ UNCHANGED <<now, ttl, cache, locks, lru, pc, svc, req, result, thr,
                   info, calls>>

(* The query string of a GET on a geo endpoint: lat, lng and possibly a    *)
(* radius.  The endpoint functions declare lat and lng only, so only these *)
(* are bound, and GeoCond(lat=lat, lng=lng) takes the default radius.      *)
QueryStrings ==
    {[lat |-> la, lng |-> ln, has_radius |-> h, radius |-> r] :
        la \in Lats, ln \in Lngs, h \in BOOLEAN, r \in FnRadii}

EndpointCond(query) == GeoCond(query.lat, query.lng, DefaultRadius)

(* the endpoint up to the call of the service function and what that call  *)
(* uses for the cache key and passes to the repository                     *)
EndpointCall(label, query) ==
    LET cond == EndpointCond(query)
    IN  /\ fn = NoFn
        /\ fn' = [op |-> "endpoint", label |-> label, query |-> query,
                  cond |-> cond,
                  key |-> CacheKey(label, cond.lat, cond.lng, cond.radius),
                  repo_radius |-> cond.radius]
        /\ UNCHANGED <<now, ttl, cache, locks, lru, pc, svc, req, result, thr,
                       info, calls>>

(* Single calls of the repository functions, of the two geometry helpers   *)
(* and of the endpoints, for every input.                                  *)
NextFn ==
    \/ \E l \in AllLabels, r \in FnRadii :
           \E w \in Worlds(l), f \in Failings(l) : RepoDomainCall(l, r, w, f)
    \/ \E la \in BoxLats, ln \in BoxLngs, d \in FnRadii : BoxCall(la, ln, d)
    \/ \E cs \in CandidateLists : DistanceCall(cs)
    \/ \E l \in AllLabels, q \in QueryStrings : EndpointCall(l, q)

SpecFn == Init /\ [][NextFn]_vars

(* ------------- the threads that run the adapter calls ------------------ *)
(* _get_data_from_overpass hands every adapter call to asyncio.to_thread,  *)
(* i.e. to the event loop's default executor, whose size follows from the  *)
(* number of CPUs.  GeoRepo._executor (max_workers=4) and                  *)
(* settings.overpass_max_par are read nowhere.                             *)
MaxCpus == 2
MaxSubmitted == 6
OverpassMaxPar == 4
ExecutorCap == 32
ExecutorExtra == 4

Min(a, b) == IF a < b THEN a ELSE b

(* max_workers of the default ThreadPoolExecutor *)
DefaultWorkers(cpus) == Min(ExecutorCap, cpus + ExecutorExtra)

(* the process starts on a machine with this many CPUs *)
PoolStart(cpus) ==
    /\ fn = NoFn
    /\ fn' = [op |-> "pool", cpus |-> cpus, queued |-> 0, running |-> 0,
              finished |-> 0]
    /\ UNCHANGED <<now, ttl, cache, locks, lru, pc, svc, req, result, thr,
                   info, calls>>

(* a domain call of some request awaits asyncio.to_thread(adapter call) *)
PoolSubmit ==
    /\ fn.op = "pool"
    /\ fn.queued + fn.running + fn.finished < MaxSubmitted
    /\ fn' = [fn EXCEPT !.queued = @ + 1]
    /\ UNCHANGED <<now, ttl, cache, locks, lru, pc, svc, req, result, thr,
                   info, calls>>

(* a thread of the default executor takes the adapter call and sends its   *)
(* query to the provider                                                   *)
PoolRun ==
    /\ fn.op = "pool"
    /\ fn.queued > 0
    /\ fn.running < DefaultWorkers(fn.cpus)
    /\ fn' = [fn EXCEPT !.queued = @ - 1, !.running = @ + 1]
    /\ UNCHANGED <<now, ttl, cache, locks, lru, pc, svc, req, result, thr,
                   info, calls>>

(* the provider has answered or failed for good: the adapter call returns *)
PoolDone ==
    /\ fn.op = "pool"
    /\ fn.running > 0
    /\ fn' = [fn EXCEPT !.running = @ - 1, !.finished = @ + 1]
    /\ UNCHANGED <<now, ttl, cache, locks, lru, pc, svc, req, result, thr,
                   info, calls>>

NextPool ==
    \/ \E n \in 1..MaxCpus : PoolStart(n)
    \/ PoolSubmit
    \/ PoolRun
    \/ PoolDone

SpecPool == Init /\ [][NextPool]_vars

(* Everything together: any caller, any input, any provider outcome.       *)
Next ==
    /\ UNCHANGED fn
    /\ \/ \E c \in Callers, l \in Labels, la \in Lats, ln \in Lngs, r \in Radii :
              DirectCall(c, l, la, ln, r)
       \/ \E c \in Callers, l \in Labels, la \in Lats, ln \in Lngs :
              HttpRequest(c, l, la, ln)
       \/ \E c \in Callers : WaiterResume(c)
       \/ \E c \in Callers, sl \in Slots : ThreadLookup(c, sl)
       \/ \E c \in Callers, sl \in Slots :
              \E el \in Answers(SigOf(c, sl)) : ProviderAnswer(c, sl, el)
       \/ \E c \in Callers, sl \in Slots, m \in ErrMsgs : ProviderError(c, sl, m)
       \/ \E c \in Callers, sl \in Slots : SleepDone(c, sl)
       \/ \E c \in Callers : ProducerFinish(c)
       \/ \E c \in Callers : Return(c)
       \/ Tick

Spec == Init /\ [][Next]_vars

(* One call after the other (a single task slot), every input and every    *)
(* provider outcome: caching over time, expiry, the adapter's retry loop.  *)
SeqCallers == {1}

NextSeq ==
    /\ UNCHANGED fn
    /\ \/ \E c \in SeqCallers, l \in Labels, la \in Lats, ln \in Lngs, r \in Radii :
              DirectCall(c, l, la, ln, r)
       \/ \E c \in SeqCallers, l \in Labels, la \in Lats, ln \in Lngs :
              HttpRequest(c, l, la, ln)
       \/ \E c \in SeqCallers, sl \in Slots : ThreadLookup(c, sl)
       \/ \E c \in SeqCallers, sl \in Slots :
              \E el \in Answers(SigOf(c, sl)) : ProviderAnswer(c, sl, el)
       \/ \E c \in SeqCallers, sl \in Slots, m \in ErrMsgs : ProviderError(c, sl, m)
       \/ \E c \in SeqCallers, sl \in Slots : SleepDone(c, sl)
       \/ \E c \in SeqCallers : ProducerFinish(c)
       \/ \E c \in SeqCallers : Return(c)
       \/ Tick

SpecSeq == Init /\ [][NextSeq]_vars

(* Concurrent calls of all callers at one point; the provider answers or   *)
(* fails for good.                                                         *)
ConcLats == {10}
ConcErrMsgs == {ErrRefused}

NextConc ==
    /\ UNCHANGED fn
    /\ \/ \E c \in Callers, l \in Labels, la \in ConcLats, ln \in Lngs, r \in Radii :
              DirectCall(c, l, la, ln, r)
       \/ \E c \in Callers, l \in Labels, la \in ConcLats, ln \in Lngs :
              HttpRequest(c, l, la, ln)
       \/ \E c \in Callers : WaiterResume(c)
       \/ \E c \in Callers, sl \in Slots : ThreadLookup(c, sl)
       \/ \E c \in Callers, sl \in Slots :
              \E el \in Answers(SigOf(c, sl)) : ProviderAnswer(c, sl, el)
       \/ \E c \in Callers, sl \in Slots, m \in ConcErrMsgs : ProviderError(c, sl, m)
       \/ \E c \in Callers : ProducerFinish(c)
       \/ \E c \in Callers : Return(c)
       \/ Tick

SpecConc == Init /\ [][NextConc]_vars

(* ------------- GeoService over any GeoRepoInterface -------------------- *)
(* GeoService takes its repository as a GeoRepoInterface.  Here the        *)
(* repository call is one awaited coroutine that ends by returning a       *)
(* result model, by returning None, or by raising.                         *)
Cancelled == [kind |-> "cancelled"]

(* the model a repository returns for a request *)
RepoModel(rq) ==
    [kind |-> "Result", label |-> rq.label, lat |-> rq.lat, lng |-> rq.lng,
     radius |-> rq.radius]

RepoOutcomes(rq) == {RepoModel(rq), None, Raised}

(* `x = await self.geo_repo.get_...(...)`, `if not x: raise ValueError`,   *)
(* `return x`                                                              *)
ProducerOver(v) == IF v = Raised \/ ~Truthy(v) THEN Raised ELSE v

(* the awaited repository coroutine suspends (it waits for I/O) *)
RepoAwait(c) ==
    /\ pc[c] = "producing"
    /\ thr[c][1].pc = "lookup"
    /\ thr' = [thr EXCEPT ![c] =
                  [sl \in Slots |->
                      IF thr[c][sl].pc = "lookup"
                      THEN [thr[c][sl] EXCEPT !.pc = "query"]
                      ELSE thr[c][sl]]]
    /\ UNCHANGED <<now, ttl, cache, locks, lru, pc, svc, req, result, info,
                   calls, fn>>

(* the repository coroutine is over: it returned out or raised *)
RepoReturns(c, out) ==
    /\ pc[c] = "producing"
    /\ thr[c][1].pc \in {"lookup", "query"}
    /\ thr' = [thr EXCEPT ![c] =
                  [sl \in Slots |->
                      IF sl = 1 THEN [NoThread EXCEPT !.pc = "ret", !.res = out]
                      ELSE NoThread]]
    /\ UNCHANGED <<now, ttl, cache, locks, lru, pc, svc, req, result, info,
                   calls, fn>>

(* the producer goes on after its await: the falsy check, then             *)
(* _get_or_compute stores the value and leaves `async with lock` (by       *)
(* return or by the exception)                                             *)
SvcProducerFinish(c) ==
    LET s == svc[c]
        key == KeyOf(req[c])
        lk == locks[s][key]
        v == ProducerOver(thr[c][1].res)
    IN  /\ pc[c] = "producing"
        /\ thr[c][1].pc = "ret"
        /\ pc' = [pc EXCEPT ![c] = "done"]
        /\ result' = [result EXCEPT ![c] = v]
        /\ thr' = [thr EXCEPT ![c][1].pc = "off"]
        /\ cache' = IF v = Raised THEN cache
                    ELSE [cache EXCEPT ![s] = CacheSet(@, key, v, ttl, now)]
        /\ locks' = [locks EXCEPT ![s][key] = Release(lk)]
        /\ UNCHANGED <<now, ttl, lru, svc, req, info, calls, fn>>

(* Lock.acquire of a cancelled waiter: its future leaves the queue and, if *)
(* the lock is free, the next waiter is woken                              *)
CancelWaiter(lock, c) ==
    LET rest == SelectSeq(lock.waiters, LAMBDA d : d # c)
    IN  [lock EXCEPT
            !.waiters = rest,
            !.woken = IF c \in lock.woken
                      THEN (IF rest = <<>> THEN {} ELSE {Head(rest)})
                      ELSE lock.woken]

(* The task of a suspended caller is cancelled: CancelledError is raised   *)
(* at its await (in Lock.acquire, or in the producer, from where it leaves *)
(* `async with lock` without reaching _cache_set).                         *)
Cancel(c) ==
    LET s == svc[c]
        key == KeyOf(req[c])
        lk == locks[s][key]
    IN  /\ \/ pc[c] = "waiting"
           \/ pc[c] = "producing" /\ thr[c][1].pc = "query"
        /\ pc' = [pc EXCEPT ![c] = "done"]
        /\ result' = [result EXCEPT ![c] = Cancelled]
        /\ thr' = [thr EXCEPT ![c] = [sl \in Slots |-> NoThread]]
        /\ locks' = [locks EXCEPT ![s][key] =
                        IF pc[c] = "waiting" THEN CancelWaiter(lk, c)
                        ELSE Release(lk)]
        /\ UNCHANGED <<now, ttl, cache, lru, svc, req, info, calls, fn>>

(* The calls of the specification below: two domains at one point, so     *)
(* that callers meet on one key and on two.                               *)
SvcCalls ==
    {<<"forest", 10, 20, DefaultRadius>>,
     <<"protection", 10, 20, DefaultRadius>>}

NextSvc ==
    \/ /\ UNCHANGED fn
       /\ \/ \E c \in Callers, i \in SvcCalls :
                 DirectCall(c, i[1], i[2], i[3], i[4])
          \/ \E c \in Callers : WaiterResume(c)
          \/ \E c \in Callers : Return(c)
          \/ Tick
    \/ \E c \in Callers : RepoAwait(c)
    \/ \E c \in Callers : \E out \in RepoOutcomes(req[c]) : RepoReturns(c, out)
    \/ \E c \in Callers : SvcProducerFinish(c)
    \/ \E c \in Callers : Cancel(c)

SpecSvc == Init /\ [][NextSvc]_vars

(* Calls that differ in one component of the key each, on a repository     *)
(* that answers every call with the model for that call.                   *)
NextKeys ==
    \/ /\ UNCHANGED fn
       /\ \/ \E c \in Callers, i \in SvcInputs :
                 DirectCall(c, i[1], i[2], i[3], i[4])
          \/ \E c \in Callers : WaiterResume(c)
          \/ \E c \in Callers : Return(c)
          \/ Tick
    \/ \E c \in Callers : RepoReturns(c, RepoModel(req[c]))
    \/ \E c \in Callers : SvcProducerFinish(c)

SpecKeys == Init /\ [][NextKeys]_vars

(* Fair scheduling: the event loop runs every callback that is ready, so   *)
(* a woken waiter resumes and a producer whose repository call is over     *)
(* goes on; and every repository call comes to an end.                     *)
FairScheduling ==
    \A c \in Callers :
        /\ WF_vars(WaiterResume(c) /\ UNCHANGED fn)
        /\ WF_vars(\E out \in RepoOutcomes(req[c]) : RepoReturns(c, out))
        /\ WF_vars(SvcProducerFinish(c))

SpecLive == Init /\ [][NextSvc]_vars /\ FairScheduling

(* A repository that never delivers: every call of it raises or returns    *)
(* None, so every producer fails.                                          *)
FailingOutcomes == {None, Raised}

NextFail ==
    \/ /\ UNCHANGED fn
       /\ \/ \E c \in Callers, i \in SvcCalls :
                 DirectCall(c, i[1], i[2], i[3], i[4])
          \/ \E c \in Callers : WaiterResume(c)
          \/ \E c \in Callers : Return(c)
          \/ Tick
    \/ \E c \in Callers : RepoAwait(c)
    \/ \E c \in Callers : \E out \in FailingOutcomes : RepoReturns(c, out)
    \/ \E c \in Callers : SvcProducerFinish(c)

SpecFail == Init /\ [][NextFail]_vars

TypeOK ==
    /\ now \in 0..MaxTime
    /\ ttl \in 0..MaxTTL
    /\ pc \in [Callers -> {"idle", "waiting", "producing", "done"}]
    /\ calls \in 0..MaxCalls

(* ======================================================================= *)
(*                                 claims                                  *)
(* ======================================================================= *)
Producing(s, k) ==
    {c \in Callers : pc[c] = "producing" /\ svc[c] = s /\ KeyOf(req[c]) = k}

(* C1: on every GeoService instance and for every cache key, at most one   *)
(* producer invocation is in progress, whatever the TTL.                   *)
C1_AtMostOneProducer ==
    \A s \in Svcs, k \in Keys : Cardinality(Producing(s, k)) <= 1

(* one caller runs the producer while another waits for the same lock *)
C1_Witness ==
    \E c, d \in Callers :
        /\ pc[c] = "producing" /\ pc[d] = "waiting"
        /\ svc[c] = svc[d] /\ KeyOf(req[c]) = KeyOf(req[d])

SameKey(c, d) == svc[c] = svc[d] /\ KeyOf(req[c]) = KeyOf(req[d])

(* C2: with TTL > 0, of the callers that invoke _get_or_compute            *)
(* concurrently for one key only one executes the producer: a caller that  *)
(* had to wait for the key's lock returns without executing the producer,  *)
(* does not raise, and returns the value the other concurrent callers for  *)
(* that key return.                                                        *)
C2_OneRunSameValue ==
    CachingOn(ttl) =>
        \A c \in Callers :
            (pc[c] = "done" /\ info[c].waited) =>
                /\ ~info[c].produced
                /\ result[c] # Raised /\ result[c] # None
                /\ \A d \in Callers :
                       (pc[d] = "done" /\ SameKey(c, d)) => result[d] = result[c]

(* two concurrent callers for one key have returned: one ran the slow      *)
(* producer, the other waited for it                                       *)
C2_Witness ==
    /\ CachingOn(ttl)
    /\ \E c, d \in Callers :
           /\ c # d /\ SameKey(c, d)
           /\ pc[c] = "done" /\ info[c].produced /\ info[c].queries > 0
           /\ pc[d] = "done" /\ info[d].waited

(* C3: with TTL > 0, a call made on a GeoService that holds a live entry   *)
(* for the same label, rounded coordinates and radius (stored by an        *)
(* earlier call) does not invoke the repository again and returns the      *)
(* stored value.                                                           *)
C3_SecondCallServedFromCache ==
    CachingOn(ttl) =>
        \A c \in Callers :
            (pc[c] = "done" /\ info[c].liveAtStart) =>
                /\ info[c].hit /\ ~info[c].produced /\ info[c].queries = 0
                /\ \E k \in StoredFor(cache[svc[c]], req[c].label, req[c]) :
                       result[c] = cache[svc[c]][k].value

(* a second call, with other raw coordinates that round to the same key,   *)
(* has been served from the entry of the first                             *)
C3_Witness ==
    \E c \in Callers :
        /\ pc[c] = "done" /\ info[c].liveAtStart /\ info[c].hit
        /\ req[c].lat # Round(req[c].lat)

(* C4: with TTL > 0, a call made after the key's entry has expired invokes *)
(* the producer and the adapter and the provider is queried again; a call  *)
(* made before expiry invokes none of them.                                *)
C4_ExpiryRequeriesProvider ==
    CachingOn(ttl) =>
        \A c \in Callers :
            pc[c] = "done" =>
                /\ info[c].expiredAtStart =>
                       (info[c].produced /\ info[c].queries >= 1)
                /\ info[c].liveAtStart =>
                       (~info[c].produced /\ info[c].queries = 0)

HttpActive(c) == pc[c] # "idle" /\ info[c].http

(* C5: the cache and the lock registry are process-wide: an HTTP request   *)
(* for a key for which another request's handler has stored an entry that  *)
(* is still live finds that entry in _cache_get, and all requests for a    *)
(* key use the same lock registry.                                         *)
C5_ProcessWideCache ==
    \A c \in Callers :
        HttpActive(c) =>
            /\ info[c].storedByRequest => info[c].hit
            /\ \A d \in Callers :
                   (HttpActive(d) /\ KeyOf(req[d]) = KeyOf(req[c])) => svc[d] = svc[c]

(* C6: two identical requests handled concurrently through the HTTP        *)
(* wiring are deduplicated: the provider is never being queried for both   *)
(* of them with the same adapter call signature.                           *)
C6_RequestsDeduplicated ==
    \A c, d \in Callers :
        (c # d /\ HttpActive(c) /\ HttpActive(d) /\ req[c] = req[d]) =>
            \A sl \in Slots :
                ~(thr[c][sl].pc = "query" /\ thr[d][sl].pc = "query")

(* C7: with TTL = 0 the cache map of every GeoService stays empty, every   *)
(* _get_or_compute call that has returned has invoked its producer, and    *)
(* the producers of concurrent calls for a key still run one at a time.    *)
C7_TtlZeroDisablesCaching ==
    ttl = 0 =>
        /\ \A s \in Svcs, k \in Keys : cache[s][k] = NoEntry
        /\ \A c \in Callers : pc[c] = "done" => (info[c].produced /\ ~info[c].hit)
        /\ \A s \in Svcs, k \in Keys : Cardinality(Producing(s, k)) <= 1

(* with TTL = 0 a caller that waited for the lock has run its own producer *)
(* after the holder's                                                      *)
C7_Witness ==
    /\ ttl = 0
    /\ \E c, d \in Callers :
           /\ c # d /\ SameKey(c, d)
           /\ pc[c] = "done" /\ info[c].produced
           /\ pc[d] = "done" /\ info[d].waited /\ info[d].produced

(* C8: a _get_or_compute call that starts while a live entry for its key   *)
(* is in the cache of its GeoService returns the stored value in the same  *)
(* step (no suspension), without running the producer or an adapter        *)
(* thread, and leaves the lock registry and the cache map unchanged.       *)
C8_FastPathFrame ==
    [][\A c \in Callers :
          (/\ pc[c] = "idle" /\ pc'[c] # "idle"
           /\ CachingOn(ttl)
           /\ cache[svc'[c]][KeyOf(req'[c])] # NoEntry
           /\ cache[svc'[c]][KeyOf(req'[c])].expiry >= now)
          => /\ pc'[c] = "done"
             /\ result'[c] = cache[svc'[c]][KeyOf(req'[c])].value
             /\ ~info'[c].produced /\ ~info'[c].waited
             /\ locks' = locks /\ cache' = cache /\ thr' = thr]_vars

(* a call answered from an entry whose expiry time is the current time *)
C8_Witness ==
    \E c \in Callers :
        /\ pc[c] = "done" /\ info[c].hit /\ ~info[c].produced
        /\ cache[svc[c]][KeyOf(req[c])] # NoEntry
        /\ cache[svc[c]][KeyOf(req[c])].expiry = now
        /\ ~locks[svc[c]][KeyOf(req[c])].locked

TransientErrs == {Err504, ErrFileExists}

(* C9: an adapter call makes 1 provider attempt when the first attempt     *)
(* succeeds or fails with a non-transient error and exactly 2 when the     *)
(* first attempt fails with a transient error; never more than 2; the      *)
(* backoff sleep happens at most once, after the first attempt only, and   *)
(* the second attempt starts no earlier than BackoffSeconds later.         *)
C9_AttemptsAndBackoff ==
    \A c \in Callers, sl \in Slots :
        LET t == thr[c][sl]
        IN  /\ t.attempts <= 2 /\ t.sleeps <= 1
            /\ t.pc = "sleep" => (t.attempts = 1 /\ t.sleeps = 1)
            /\ t.pc = "query" => t.sleeps = t.attempts - 1
            /\ (t.pc = "query" /\ t.attempts = 2) => now >= t.wake
            /\ (t.pc = "ret" /\ t.attempts > 0) =>
                   /\ t.attempts = (IF t.first \in TransientErrs THEN 2 ELSE 1)
                   /\ t.sleeps = t.attempts - 1

(* an adapter call that returned after a cache-file error, one sleep and a *)
(* second attempt                                                          *)
C9_Witness ==
    \E c \in Callers, sl \in Slots :
        /\ thr[c][sl].pc = "ret" /\ thr[c][sl].first = ErrFileExists
        /\ thr[c][sl].attempts = 2 /\ thr[c][sl].sleeps = 1

(* C10: an adapter call whose provider query failed for good returns (it   *)
(* does not raise) the result of a query without elements: the no-elements *)
(* marker and an empty info string.                                        *)
C10_FailureIsEmptyResult ==
    \A c \in Callers, sl \in Slots :
        (thr[c][sl].pc = "ret" /\ thr[c][sl].failed) =>
            /\ thr[c][sl].res # Raised
            /\ thr[c][sl].res = ProcessElements(SigOf(c, sl), <<>>)
            /\ thr[c][sl].res.info = ""

(* a failure on the second attempt *)
C10_Witness ==
    \E c \in Callers, sl \in Slots :
        /\ thr[c][sl].pc = "ret" /\ thr[c][sl].failed
        /\ thr[c][sl].attempts = 2

(* ------------------ claims on the repository functions ------------------ *)
RepoDone(label) == fn.op = "repo" /\ fn.label = label

(* nothing around the point, or the provider failed on every attempt *)
NoElements(sl) == fn.failing[sl] \/ fn.world[sl] = <<>>

(* C11: when the adapter yields no elements (nothing nearby, or the        *)
(* provider failed for good), get_protected_areas returns                  *)
(* in_protected_area = false with designation null, get_forest returns     *)
(* in_forest = false with type null, get_buildings_in_area returns         *)
(* in_populated_area = false, and none of them raises.                     *)
C11_NoElementsNegativeResult ==
    /\ (RepoDone("protection") /\ NoElements(1)) =>
           fn.result = [kind |-> "ResultProtection", in_protected_area |-> FALSE,
                        designation |-> NoneStr]
    /\ (RepoDone("forest") /\ NoElements(1)) =>
           fn.result = [kind |-> "ResultForest", in_forest |-> FALSE,
                        type |-> NoneStr]
    /\ (RepoDone("buildings") /\ NoElements(1)) =>
           fn.result = [kind |-> "ResultBuildings", in_populated_area |-> FALSE]

(* get_buildings_in_area has returned although buildings are around the    *)
(* point: the provider failed                                              *)
C11_Witness ==
    /\ RepoDone("buildings") /\ fn.failing[1] /\ fn.world[1] # <<>>
    /\ fn.result # Raised

(* the adapter call of this slot returned no geometry *)
NoCandidates(sl) ==
    \A i \in 1..Len(fn.results[sl].coords) : ~IsGeometry(fn.results[sl].coords[i])

(* C12: in get_power, when the substation (power-line) adapter call yields *)
(* no candidates, get_power returns without raising and the substation     *)
(* (power-line) distance of the ResultPower is the 0.0 sentinel.           *)
C12_NoCandidatesZeroDistance ==
    RepoDone("power") =>
        /\ NoCandidates(1) =>
               (fn.result # Raised /\ fn.result.nearest_substation_distance_m = 0)
        /\ NoCandidates(2) =>
               (fn.result # Raised /\ fn.result.nearest_powerline_distance_m = 0)

PowerReturned == RepoDone("power") /\ fn.result # Raised

(* C13: get_power reports a distance that is not below the requested       *)
(* radius as not found: every non-zero distance of a returned ResultPower  *)
(* is strictly less than the requested radius.                             *)
C13_DistancesBelowRadius ==
    PowerReturned =>
        /\ \/ fn.result.nearest_substation_distance_m = 0
           \/ fn.result.nearest_substation_distance_m < fn.radius
        /\ \/ fn.result.nearest_powerline_distance_m = 0
           \/ fn.result.nearest_powerline_distance_m < fn.radius

(* the distance in metres from the point to the northern edge of the box   *)
(* of a query of the finished repository call                              *)
NorthEdge(q) == (q.bbox.max_lat - FnLat) * MetresPerKm

(* C14: the substation query of get_power covers a fixed 10 km window for  *)
(* every requested radius: its bounding box is built with 10 000 m, and a  *)
(* substation within 10 km of the point is among the candidates.           *)
C14_SubstationWindowTenKm ==
    RepoDone("power") =>
        /\ NorthEdge(fn.queries[1]) = 10000
        /\ ~fn.failing[1] =>
               \A i \in 1..Len(fn.world[1]) :
                   fn.world[1][i].geom.dist <= 10000 =>
                       \E j \in 1..Len(fn.results[1].coords) :
                           fn.results[1].coords[j] = fn.world[1][i].geom

(* the radius an adapter call of the finished repository call was given *)
PassedRadius(sl) == IF fn.label = "power" /\ sl = 1 THEN 10000 ELSE fn.radius

MinNat(a, b) == IF a < b THEN a ELSE b

FirstTag(k) ==
    LET tags == fn.world[1][1].tags
    IN  IF k \in DOMAIN tags /\ tags[k] # "" THEN tags[k] ELSE "Unknown"

(* C16: for get_protected_areas and get_forest the flag of the result is   *)
(* true iff the info field (designation / type) is non-null; when true,    *)
(* the info field is the first returned element's tag value if the tag is  *)
(* present and non-empty, and "Unknown" otherwise.                         *)
C16_FlagIffInfo ==
    /\ RepoDone("forest") =>
           /\ fn.result.in_forest <=> fn.result.type # NoneStr
           /\ fn.result.in_forest => fn.result.type = FirstTag("leaf_type")
    /\ RepoDone("protection") =>
           /\ fn.result.in_protected_area <=> fn.result.designation # NoneStr
           /\ fn.result.in_protected_area =>
                  fn.result.designation = FirstTag("protection_title")

(* an element without the tag comes first, a tagged one second *)
C16_Witness ==
    /\ RepoDone("forest") /\ fn.result.in_forest
    /\ Len(fn.world[1]) = 2
    /\ fn.world[1][1].tags = Untagged
    /\ fn.world[1][2].tags = [leaf_type |-> "broadleaved"]
    /\ fn.result.type = "Unknown"

Range(f) == {f[i] : i \in DOMAIN f}

(* the element types and selector predicates of each adapter call *)
ExpectedTypes(label, sl) ==
    CASE label = "forest" -> {"node", "relation", "way"}
      [] label = "power" /\ sl = 1 -> {"node"}
      [] label = "power" /\ sl = 2 -> {"way"}
      [] OTHER -> {"way", "relation"}

ExpectedSelectors(label, sl) ==
    CASE label = "forest" -> {"natural=wood", "landuse=forest"}
      [] label = "protection" -> {"boundary=protected_area"}
      [] label = "buildings" ->
            {"landuse=residential", "landuse=construction", "landuse=industrial",
             "landuse=retail", "landuse=commercial"}
      [] label = "power" /\ sl = 1 -> {"power=substation"}
      [] OTHER -> {"power=line", "line=busbar"}

C18_NearestIsMinimum ==
    fn.op = "distance" =>
        /\ fn.out # Raised
        /\ fn.out.kind = "float"
        /\ IF Len(fn.coords) = 0 THEN fn.out.v = 0
           ELSE /\ \E i \in 1..Len(fn.coords) : fn.coords[i].dist = fn.out.v
                /\ \A i \in 1..Len(fn.coords) : fn.out.v <= fn.coords[i].dist

(* C19: for every centre with latitude in [-90, 90] and longitude in       *)
(* [-180, 180] and every radius > 0, the box of _create_bounding_box has   *)
(* min_lat < max_lat and min_lon < max_lon, near the poles and the         *)
(* antimeridian too.                                                       *)
C19_BoxOrdered ==
    fn.op = "bbox" =>
        /\ fn.box.min_lat < fn.box.max_lat
        /\ fn.box.min_lon < fn.box.max_lon

(* C20: on each of the four geo endpoints the radius the caller supplies   *)
(* is the radius given to the service, used in the cache key and in the    *)
(* repository call; the default is used only when the caller omits it.     *)
C20_CallerRadiusUsed ==
    fn.op = "endpoint" =>
        LET r == IF fn.query.has_radius THEN fn.query.radius ELSE DefaultRadius
        IN  /\ fn.cond.radius = r
            /\ fn.key[4] = r
            /\ fn.repo_radius = r

(* what the repository returned in the call that caller c is finishing or  *)
(* has finished                                                            *)
RepoOut(c) == thr[c][1].res

(* C21: when the repository returns no value (None) for a domain query,    *)
(* the service call raises to its caller, no entry is stored for the key   *)
(* and the cache map is left as it was.                                    *)
C21_FalsyResultRaises ==
    [][\A c \in Callers :
          (/\ pc[c] = "producing" /\ thr[c][1].pc = "ret"
           /\ RepoOut(c) = None
           /\ pc'[c] = "done")
          => /\ result'[c] = Raised
             /\ cache' = cache
             /\ cache'[svc[c]][KeyOf(req[c])] = NoEntry]_vars

(* a call has raised after its repository returned None, with caching on *)
C21_Witness ==
    \E c \in Callers :
        /\ pc[c] = "done" /\ info[c].produced /\ RepoOut(c) = None
        /\ result[c] = Raised /\ CachingOn(ttl)
        /\ cache[svc[c]][KeyOf(req[c])] = NoEntry

(* the map of the shared GeoService after the first, lock-free _cache_get  *)
(* of the call that caller c starts in this step                           *)
AfterLockFreeLookup(c) ==
    CacheGet(cache[SharedSvc], KeyOf(req'[c]), ttl, now).map

(* caller c starts a call on the shared GeoService in this step *)
StartsCall(c) == pc[c] = "idle" /\ pc'[c] # "idle" /\ svc'[c] = SharedSvc

(* caller c is inside `async with lock` for key k of the shared            *)
(* GeoService, or enters it in this step as the woken waiter               *)
HoldsLock(c, k) ==
    /\ svc[c] = SharedSvc /\ KeyOf(req[c]) = k
    /\ \/ pc[c] = "producing"
       \/ pc[c] = "waiting" /\ c \in locks[SharedSvc][k].woken

(* C22: a key's cache entry is inserted, overwritten or removed only by a  *)
(* caller that holds the key's lock: the lock-free lookup at the start of  *)
(* a call leaves the cache map as it is, and every other change of an      *)
(* entry is made by a caller that is inside `async with lock` for its key. *)
C22_MutationOnlyUnderLock ==
    [][/\ \A c \in Callers :
            StartsCall(c) => AfterLockFreeLookup(c) = cache[SharedSvc]
       /\ \A k \in Keys :
            (/\ cache'[SharedSvc][k] # cache[SharedSvc][k]
             /\ \A c \in Callers : ~StartsCall(c))
            => \E c \in Callers : HoldsLock(c, k)]_vars

(* the status of key k on the shared GeoService *)
StatusOf(k) ==
    IF Producing(SharedSvc, k) # {} THEN "COMPUTING"
    ELSE IF cache[SharedSvc][k] = NoEntry THEN "EMPTY"
    ELSE IF cache[SharedSvc][k].expiry < now THEN "EXPIRED"
    ELSE "CACHED"

StatusCycle ==
    {<<"EMPTY", "COMPUTING">>, <<"COMPUTING", "CACHED">>,
     <<"CACHED", "EXPIRED">>, <<"EXPIRED", "COMPUTING">>}

(* the producer run for key k ends in this step without a value to store:  *)
(* it raised, it was cancelled, or caching is disabled                     *)
EndsWithoutStore(k) ==
    \E c \in Producing(SharedSvc, k) :
        /\ pc'[c] = "done"
        /\ \/ result'[c] \in {Raised, Cancelled}
           \/ ~CachingOn(ttl)

(* C23 as stated: the status of every cache key changes only along         *)
(* EMPTY -> COMPUTING -> CACHED -> EXPIRED -> COMPUTING; in particular     *)
(* never COMPUTING -> EMPTY, never CACHED -> COMPUTING and never EMPTY or  *)
(* EXPIRED -> CACHED.                                                      *)
C23_StatusCycleOnly ==
    [][\A k \in Keys :
          StatusOf(k)' # StatusOf(k)
          => <<StatusOf(k), StatusOf(k)'>> \in StatusCycle]_vars

(* C23, amended: the status of every cache key changes only along          *)
(* EMPTY -> COMPUTING -> CACHED -> EXPIRED -> COMPUTING, except that a key *)
(* goes from COMPUTING back to EMPTY when its producer run ends without a  *)
(* value to store (the producer raised, the call was cancelled, or the TTL *)
(* is 0); a producer is never started while a live entry exists and no     *)
(* entry appears without a producer run.                                   *)
C23_StatusCycleOrFailure ==
    [][\A k \in Keys :
          StatusOf(k)' # StatusOf(k)
          => \/ <<StatusOf(k), StatusOf(k)'>> \in StatusCycle
             \/ /\ StatusOf(k) = "COMPUTING" /\ StatusOf(k)' = "EMPTY"
                /\ EndsWithoutStore(k)]_vars

(* with caching on, a key is EMPTY again after its producer run raised *)
C23_Witness ==
    \E c \in Callers :
        /\ pc[c] = "done" /\ info[c].produced /\ RepoOut(c) = Raised
        /\ result[c] = Raised /\ CachingOn(ttl) /\ svc[c] = SharedSvc
        /\ StatusOf(KeyOf(req[c])) = "EMPTY"

(* C24: the number of provider queries in flight at the same time never    *)
(* exceeds settings.overpass_max_par (4 by default), however many adapter  *)
(* calls the running requests have started.                                *)
C24_QueriesWithinMaxPar ==
    fn.op = "pool" => fn.running <= OverpassMaxPar

(* the four components that identify what a call asks for *)
Asked(rq) == <<rq.label, Round(rq.lat), Round(rq.lng), rq.radius>>

(* caller d holds a lock, or has been handed one, on behalf of the key     *)
(* that caller c asks for                                                  *)
HoldsFor(d, c) ==
    /\ svc[d] = svc[c] /\ Asked(req[d]) = Asked(req[c])
    /\ \/ pc[d] = "producing"
       \/ pc[d] = "waiting" /\ d \in locks[svc[d]][KeyOf(req[d])].woken

(* no call for what caller c asks for is in progress *)
NoneInProgressFor(c) ==
    \A d \in Callers \ {c} :
        pc[d] \in {"producing", "waiting"} /\ svc[d] = SharedSvc
        => Asked(req[d]) # Asked(req'[c])

(* C25: calls for distinct cache keys never block one another: a call      *)
(* that misses the cache while no call for its own key is in progress      *)
(* starts its producer at once, whatever producers run for other keys, and *)
(* a caller only ever waits for a caller of its own key.                   *)
C25_DistinctKeysIndependent ==
    [][/\ \A c \in Callers :
            (StartsCall(c) /\ pc'[c] # "done" /\ NoneInProgressFor(c))
            => pc'[c] = "producing"
       /\ \A c \in Callers :
            pc'[c] = "waiting" => \E d \in Callers : HoldsFor(d, c)']_vars

(* two producers run at the same time on one GeoService for two keys *)
C25_Witness ==
    \E c, d \in Callers :
        /\ pc[c] = "producing" /\ pc[d] = "producing"
        /\ svc[c] = svc[d] /\ Asked(req[c]) # Asked(req[d])

(* the keys in the lock registry of the shared GeoService *)
Registered == {k \in Keys : locks[SharedSvc][k].created}

(* caller c starts a call in this step and misses on the lock-free lookup *)
MissesAtStart(c) == StartsCall(c) /\ ~info'[c].hit

(* C26: the lock registry of a GeoService holds exactly one lock per key   *)
(* that has missed the cache: a key is registered by the first call that   *)
(* misses on it and by nothing else, a registered key stays registered,    *)
(* and the lock is never replaced: whoever runs the producer for a key has *)
(* locked the registered lock and whoever waits is in its queue.           *)
C26_LockRegistryGrowsOnMiss ==
    [][/\ Registered \subseteq Registered'
       /\ \A c \in Callers :
            MissesAtStart(c) => KeyOf(req'[c]) \in Registered'
       /\ \A k \in Registered' \ Registered :
            \E c \in Callers : MissesAtStart(c) /\ KeyOf(req'[c]) = k
       /\ \A c \in Callers :
            LET lk == locks'[SharedSvc][KeyOf(req'[c])]
            IN  /\ (pc'[c] = "producing" /\ svc'[c] = SharedSvc)
                    => lk.created /\ lk.locked
                /\ (pc'[c] = "waiting" /\ svc'[c] = SharedSvc)
                    => /\ lk.created
                       /\ \E i \in 1..Len(lk.waiters) : lk.waiters[i] = c]_vars

(* all calls are over and a key that missed is still registered, its lock  *)
(* free, while another key never missed and has no lock                    *)
C26_Witness ==
    /\ \A c \in Callers : pc[c] = "idle"
    /\ \E k \in Registered :
           ~locks[SharedSvc][k].locked /\ locks[SharedSvc][k].waiters = <<>>
    /\ Keys \ Registered # {}
    /\ calls = MaxCalls

(* caller c reads key k of the shared GeoService's cache in this step: by  *)
(* the lookups of a call it starts, or by the re-check it makes as the     *)
(* woken waiter; the read reports a miss                                   *)
ReadsAndMisses(c, k) ==
    \/ MissesAtStart(c) /\ KeyOf(req'[c]) = k
    \/ /\ pc[c] = "waiting" /\ svc[c] = SharedSvc /\ KeyOf(req[c]) = k
       /\ pc'[c] = "producing"

(* C27: an entry leaves the cache map only by a read of its own key made   *)
(* after its expiry, a read that reports a miss; such a read does remove   *)
(* it; a live entry and the entries of other keys stay.                    *)
C27_RemovalOnlyByExpiredRead ==
    [][/\ \A k \in Keys :
            (cache[SharedSvc][k] # NoEntry /\ cache'[SharedSvc][k] = NoEntry)
            => /\ cache[SharedSvc][k].expiry < now
               /\ \E c \in Callers : ReadsAndMisses(c, k)
       /\ \A c \in Callers :
            LET k == KeyOf(req'[c])
            IN  (/\ StartsCall(c) /\ cache[SharedSvc][k] # NoEntry
                 /\ cache[SharedSvc][k].expiry < now)
                => cache'[SharedSvc][k] = NoEntry /\ ~info'[c].hit]_vars

(* a call has found its key's entry expired, has removed it and runs the   *)
(* producer                                                                *)
C27_Witness ==
    \E c \in Callers :
        /\ pc[c] = "producing" /\ svc[c] = SharedSvc /\ info[c].expiredAtStart
        /\ cache[SharedSvc][KeyOf(req[c])] = NoEntry

(* caller c has a result model *)
HasModel(c) == pc[c] = "done" /\ result[c] \notin {Raised, Cancelled, None}

(* C28: the entry and the lock a call uses are determined exactly by       *)
(* (label, rounded lat, rounded lng, radius): calls that agree on the four *)
(* use one key, so that only one of them runs the producer at a time and a *)
(* call that starts on a live entry for the four is served from it; calls  *)
(* that differ in one of them use different keys, and a call never returns *)
(* a value produced for other four.                                        *)
C28_KeyIsTheFourComponents ==
    /\ \A c, d \in Callers :
          (pc[c] # "idle" /\ pc[d] # "idle" /\ svc[c] = svc[d])
          => /\ (Asked(req[c]) = Asked(req[d])) <=> (KeyOf(req[c]) = KeyOf(req[d]))
             /\ (c # d /\ Asked(req[c]) = Asked(req[d]))
                 => ~(pc[c] = "producing" /\ pc[d] = "producing")
    /\ \A c \in Callers :
          /\ HasModel(c) => Asked(result[c]) = Asked(req[c])
          /\ (pc[c] # "idle" /\ info[c].liveAtStart) => HasModel(c) /\ info[c].hit

(* a call got the value that was produced for another latitude within the  *)
(* same rounding                                                           *)
C28_Witness ==
    \E c \in Callers :
        /\ HasModel(c) /\ info[c].hit
        /\ result[c].lat # req[c].lat

(* C29: a producer invocation that has started ends only by completion or  *)
(* by failure, also when its caller is cancelled while waiting for it, and *)
(* on completion its result is in the cache under the key (caching on).    *)
C29_ProducerRunsToCompletion ==
    [][\A c \in Callers :
          (pc[c] = "producing" /\ svc[c] = SharedSvc /\ pc'[c] # "producing")
          => \/ /\ RepoOut(c) \in {Raised, None}
                /\ result'[c] = Raised
             \/ /\ RepoOut(c) = RepoModel(req[c])
                /\ result'[c] = RepoOut(c)
                /\ CachingOn(ttl)
                    => /\ cache'[SharedSvc][KeyOf(req[c])] # NoEntry
                       /\ cache'[SharedSvc][KeyOf(req[c])].value = RepoOut(c)]_vars

(* the adapter calls that have returned and not yet been consumed *)
Returned == {<<c, sl>> \in Callers \X Slots : thr[c][sl].pc = "ret"}

Memoized == {g \in Sigs : lru[g] # None}

(* C30: the repository memoizes adapter results per argument tuple with no *)
(* TTL, the degraded empty result of a failed query included: an adapter   *)
(* call that queried the provider leaves its result in the memo, a         *)
(* memoized result stays as it is whatever time passes, and an adapter     *)
(* call whose arguments are memoized returns that result without a query.  *)
(* (The memo never holds more than its 128 entries, so none is displaced.) *)
C30_AdapterResultsMemoized ==
    [][/\ \A g \in Memoized : lru'[g] = lru[g]
       /\ Cardinality(Memoized') <= LruMaxSize
       /\ \A c \in Callers, sl \in Slots :
            /\ (thr[c][sl].pc = "lookup" /\ thr'[c][sl].pc # "lookup"
                 /\ SigOf(c, sl) \in Memoized)
                => /\ thr'[c][sl].pc = "ret"
                   /\ thr'[c][sl].attempts = 0
                   /\ thr'[c][sl].res = lru[SigOf(c, sl)]
            /\ (thr[c][sl].pc = "query" /\ thr'[c][sl].pc = "ret")
                => lru'[SigOf(c, sl)] = thr'[c][sl].res]_vars

(* after time has passed, an adapter call has returned the memoized result *)
(* of a failed query without querying the provider                         *)
C30_Witness ==
    \E <<c, sl>> \in Returned :
        /\ thr[c][sl].attempts = 0
        /\ thr[c][sl].res = FailureResult
        /\ now > 0

(* the producer of caller c raises in this step *)
ProducerRaises(c) ==
    pc[c] = "producing" /\ pc'[c] = "done" /\ result'[c] = Raised

(* C31: when the producer of the lock holder raises, the lock is released  *)
(* (and the first waiter woken), nothing is stored and no other caller is  *)
(* touched by the error; with a producer that always fails every caller,   *)
(* the waiting ones included, runs the producer itself and gets the error, *)
(* and the producer runs of a key never overlap.                           *)
C31_FailureReleasesAndEachCallerProduces ==
    [][/\ \A c \in Callers :
            ProducerRaises(c)
            => LET k == KeyOf(req[c])
                   lk == locks[svc[c]][k]
                   lk2 == locks'[svc[c]][k]
               IN  /\ ~lk2.locked
                   /\ lk.waiters # <<>> => lk2.woken = {Head(lk.waiters)}
                   /\ cache' = cache
                   /\ cache'[svc[c]][k] = NoEntry
                   /\ \A d \in Callers \ {c} :
                          pc'[d] = pc[d] /\ result'[d] = result[d]
       /\ \A c \in Callers :
            pc'[c] = "done" => result'[c] = Raised /\ info'[c].produced
       /\ \A s \in Svcs, k \in Keys : Cardinality(Producing(s, k))' <= 1]_vars

(* every caller is served: all of them ran the failing producer for one    *)
(* key, all but the first after waiting for the lock                       *)
C31_Witness ==
    /\ \A c \in Callers :
          /\ pc[c] = "done" /\ result[c] = Raised /\ info[c].produced
          /\ KeyOf(req[c]) = KeyOf(req[1])
    /\ Cardinality({c \in Callers : info[c].waited}) = NumCallers - 1
    /\ CachingOn(ttl)

(* the _get_or_compute call of caller c is suspended *)
InCall(c) == pc[c] \in {"waiting", "producing"}

(* C32: under fair scheduling and with repository calls that all come to   *)
(* an end, every _get_or_compute call that is suspended, waiting for a     *)
(* key's lock or for its producer, eventually returns or raises, with      *)
(* calls for several keys interleaved.                                     *)
C32_EveryCallEnds ==
    \A c \in Callers : InCall(c) ~> (pc[c] = "done")

(* a caller that had to wait for its key's lock, and then for its own      *)
(* producer because the holder left nothing, has got its answer, and the   *)
(* lock is free again                                                      *)
C32_Witness ==
    \E c \in Callers :
        /\ pc[c] = "done" /\ info[c].waited /\ info[c].produced
        /\ ~locks[svc[c]][KeyOf(req[c])].locked

====
